---- MODULE Spec2Model ----
(***************************************************************************)
(* The transactional ledger of kabupilot: PortfolioRepository over the     *)
(* SQLite store (backend/kabupilot/repository.py, db.py, models.py).       *)
(*                                                                         *)
(* Amounts are exact fixed-point numbers.  One share unit is 5e-7 share,   *)
(* so the code's 1e-6 tolerance is Tolerance = 2 share units; one cash     *)
(* unit is 25000 currency, so the seeded balance 100000.0 is InitialCash   *)
(* = 4 cash units; a price is an integer number of cash units per share    *)
(* unit.  avg_price is an exact rational [n, d] in lowest terms.  Binary   *)
(* floating-point rounding is not modelled.                                *)
(***************************************************************************)
EXTENDS Integers, Sequences, FiniteSets, TLC

\* ---- bounds of the model ------------------------------------------------
MaxPrice == 1      \* largest tx.price offered
MaxBatch == 2      \* longest batch offered to apply_transactions
MaxLog == 3        \* activity_log rows after which no further batch is offered
MaxOps == 2        \* repository calls other than apply_transactions

\* ---- program constants --------------------------------------------------
InitialCash == 4   \* 100000.0 currency (db.py:97)
Tolerance == 2     \* 1e-6 share (repository.py:240, 242)
DefaultLimit == 50 \* list_activity's default limit (repository.py:144)
ScenarioCash == 100000  \* the seeded balance in currency units (db.py:97)

Symbols == {"ACME", "X"}
\* the symbols as ORDER BY symbol puts them
SymbolOrder == <<"ACME", "X">>

\* tx.shares offered, in share units.  With these lots a sell can leave
\* every remainder from below -Tolerance to above Tolerance, both limits
\* included.
Lots == {1, Tolerance + 1, Tolerance + 2}
\* tx.price offered
Prices == 0..MaxPrice
Kinds == {"buy", "sell", "hold"}

\* Transaction (models.py:55-61); reason carries no behaviour and is left out.
\* Trades of every lot and price, and one transaction of an unsupported kind
\* per symbol.
Transaction ==
    [kind : {"buy", "sell"}, symbol : Symbols, shares : Lots, price : Prices]
        \cup [kind : Kinds \ {"buy", "sell"}, symbol : Symbols, shares : {1}, price : {1}]

\* The batches of n transactions
Batches(n) == [1..n -> Transaction]

\* ---- exact rationals for avg_price ---------------------------------------
RECURSIVE GCD(_, _)
GCD(a, b) == IF b = 0 THEN a ELSE GCD(b, a % b)

Rat(n, d) == LET g == GCD(n, d) IN IF g = 0 THEN [n |-> 0, d |-> 1] ELSE [n |-> n \div g, d |-> d \div g]

VARIABLES
    cash_row,        \* portfolio_meta.cash_balance, committed
    positions,       \* positions table, committed: set of rows
    activity_log,    \* activity_log table, committed: rows in id order
    pc,              \* where the caller is: "idle", "loop" (inside the call) or "done"
    transactions,    \* argument of the running (or last) call
    i,               \* index of the next tx of the for loop
    cash_balance,    \* local cash_balance of apply_transactions
    tx_positions,    \* positions as the open connection sees them (uncommitted)
    tx_log,          \* activity_log as the open connection sees it (uncommitted)
    result,          \* how the last call ended: "none", "ok" or the error raised
    pre,             \* committed store when the running (or last) call began
    watchlist,       \* watchlist table, committed: set of rows
    market,          \* settings row "market"
    goals,           \* goals table: rows in id order
    ops,             \* number of other repository calls made so far
    replay,          \* whether the running call repeats the batch of the call before it
    snap,            \* a portfolio_snapshot in progress on another thread
    read,            \* what the last single read on another connection returned
    listed,          \* what the last list_activity returned
    replaced,        \* the last replace_watchlist call: its argument and whether it raised
    initialized,     \* the last initialize_database call on the existing store
    prototype        \* the in-memory prototype: its repository and the run in progress

vars == <<cash_row, positions, activity_log, pc, transactions, i, cash_balance,
          tx_positions, tx_log, result, pre, watchlist, market, goals, ops,
          replay, snap, read, listed, replaced, initialized, prototype>>

\* No replay is running.
NoReplay == [on |-> FALSE, cash |-> 0, positions |-> {}, log |-> <<>>]

\* workflow.py:24: PortfolioRepository(cash=10000.0)
WorkflowCash == 10000

\* The in-memory PortfolioRepository (data_providers.py:10-16) holding cash and
\* no position, and no PortfolioUpdater.run in progress.
PrototypeAt(cash) ==
    [cash |-> cash, positions |-> [s \in {} |-> 0], pc |-> "idle",
     decisions |-> <<>>, i |-> 1, capital |-> cash, runs |-> 0]

\* initialize_database has created the store and has not been called since.
Created == [again |-> FALSE, force |-> FALSE]

\* replace_watchlist has not been called.
NoReplace == [on |-> FALSE, entries |-> <<>>, raised |-> FALSE]

\* No snapshot is running.
NoSnapshot == [pc |-> "idle", cash |-> 0, positions |-> {}, watchlist |-> {}, seen |-> {}]

\* ---- models.py -------------------------------------------------------------
\* (variant: a sell is charged like a buy)
cash_impact_debit(tx) == 0 - tx.shares * tx.price

cash_impact(tx) ==
    LET multiplier == IF tx.kind = "buy" THEN -1 ELSE 1
    IN  multiplier * tx.shares * tx.price

\* ---- SQL statements of apply_transactions ---------------------------------
\* SELECT shares, avg_price FROM positions WHERE symbol = ?  (all matching rows)
SelectPosition(tbl, symbol) == {r \in tbl : r.symbol = symbol}

\* (variant: a plain INSERT into a table without the UNIQUE constraint)
InsertPosition(tbl, symbol, shares, avg_price) ==
    tbl \cup {[symbol |-> symbol, shares |-> shares, avg_price |-> avg_price]}

\* INSERT INTO positions ... ON CONFLICT(symbol) DO UPDATE SET shares, avg_price
UpsertPosition(tbl, symbol, shares, avg_price) ==
    IF SelectPosition(tbl, symbol) # {}
    THEN {IF r.symbol = symbol THEN [r EXCEPT !.shares = shares, !.avg_price = avg_price] ELSE r : r \in tbl}
    ELSE tbl \cup {[symbol |-> symbol, shares |-> shares, avg_price |-> avg_price]}

\* DELETE FROM positions WHERE symbol = ?
DeletePosition(tbl, symbol) == {r \in tbl : r.symbol # symbol}

\* (variant: the UPDATE without its WHERE clause)
UpdateSharesNoWhere(tbl, symbol, shares) == {[r EXCEPT !.shares = shares] : r \in tbl}

\* UPDATE positions SET shares = ? WHERE symbol = ?
UpdateShares(tbl, symbol, shares) ==
    {IF r.symbol = symbol THEN [r EXCEPT !.shares = shares] ELSE r : r \in tbl}

\* INSERT INTO activity_log (...): agent "Decider", type and summary from
\* tx.kind and tx.symbol, details = json of the transaction.
LogRow(tx) == [agent |-> "Decider", kind |-> tx.kind, symbol |-> tx.symbol,
               shares |-> tx.shares, price |-> tx.price]

Init ==
    /\ cash_row = InitialCash
    /\ positions = {}
    /\ activity_log = <<>>
    /\ pc = "idle"
    /\ transactions = <<>>
    /\ i = 1
    /\ cash_balance = InitialCash
    /\ tx_positions = {}
    /\ tx_log = <<>>
    /\ result = "none"
    /\ pre = [cash |-> InitialCash, positions |-> {}, log |-> <<>>]
    /\ watchlist = {}
    /\ market = "jp"
    /\ goals = <<>>
    /\ ops = 0
    /\ replay = NoReplay
    /\ snap = NoSnapshot
    /\ read = [what |-> "none", cash |-> 0, positions |-> {}, log |-> <<>>]
    /\ listed = [limit |-> 0, stored |-> 0, rows |-> <<>>]
    /\ replaced = NoReplace
    /\ initialized = Created
    /\ prototype = PrototypeAt(WorkflowCash)

\* ---- apply_transactions (repository.py:197-265) ---------------------------
\* (variant: the list is walked from its end)
tx_reversed == transactions[Len(transactions) + 1 - i]

\* the loop variable and what the loop body computes from it
tx == transactions[i]

\* (variant: the kind is checked against every kind the callers know)
UnsupportedKindLax(kind) == kind \notin Kinds

\* line 209: tx.kind not in {"buy", "sell"}
UnsupportedKind(kind) == kind \notin {"buy", "sell"}

\* (variant: every pass starts again from the committed balance)
new_cash_balance_committed == cash_row + cash_impact(tx)

\* line 212: cash_balance += tx.cash_impact()
new_cash_balance == cash_balance + cash_impact(tx)

\* (variant: the balance is tested before the impact is added)
NegativeCashStale(balance) == cash_balance < 0

\* (variant: the batch's net impact is tested instead of the running balance)
RECURSIVE NetImpact(_, _)
NetImpact(batch, k) == IF k = 0 THEN 0 ELSE NetImpact(batch, k - 1) + cash_impact(batch[k])
NegativeCashNet(balance) == cash_row + NetImpact(transactions, Len(transactions)) < 0

\* line 213: cash_balance < 0
NegativeCash(balance) == balance < 0

\* (variant: the row is read from the committed table)
position_rows_committed == SelectPosition(positions, tx.symbol)

\* lines 216-219: the row fetched over the open connection, which sees the
\* connection's own uncommitted writes
position_rows == SelectPosition(tx_positions, tx.symbol)
position_row == CHOOSE r \in position_rows : TRUE

\* line 222
new_shares == (IF position_rows # {} THEN position_row.shares ELSE 0) + tx.shares

\* (variant: the mean of the old average and the new price, unweighted)
new_avg_unweighted ==
    IF position_rows # {}
    THEN Rat(position_row.avg_price.n + tx.price * position_row.avg_price.d,
             2 * position_row.avg_price.d)
    ELSE Rat(tx.price, 1)

\* lines 223-228: prev_total = shares * avg_price; new_total = prev_total +
\* tx.shares * tx.price; new_avg = new_total / new_shares
new_avg ==
    IF position_rows # {}
    THEN Rat(position_row.shares * position_row.avg_price.n
                 + tx.shares * tx.price * position_row.avg_price.d,
             position_row.avg_price.d * new_shares)
    ELSE Rat(tx.price, 1)

\* line 239
remaining_shares == position_row.shares - tx.shares

\* (variant: the holding is tested instead of the remainder)
OversizedHeld(remaining) == remaining + tx.shares < -Tolerance

\* line 240: remaining_shares < -1e-6
Oversized(remaining) == remaining < -Tolerance

\* (variant: only an exact zero closes the position)
ExhaustedExact(remaining) == remaining = 0

\* line 242: remaining_shares <= 1e-6
Exhausted(remaining) == remaining <= Tolerance

\* (variant: every statement is committed as it runs, isolation_level None)
StoreAfterCloseAutocommit == [cash |-> cash_row, positions |-> tx_positions, log |-> tx_log]

\* The store after the connection is closed without a commit (db.py:68-71):
\* SQLite rolls the open transaction back.
StoreAfterClose == [cash |-> cash_row, positions |-> positions, log |-> activity_log]

\* The store after lines 261-265: UPDATE portfolio_meta, connection.commit().
StoreAfterCommit == [cash |-> cash_balance, positions |-> tx_positions, log |-> tx_log]

\* apply_transactions touches no other table and no other thread's results.
Frame == UNCHANGED <<watchlist, market, goals, ops, read, listed, replaced, initialized, prototype>>

\* A snapshot in progress on another thread overlaps the commit of store s.
Overlapped(s) ==
    IF snap.pc = "idle" THEN snap
    ELSE [snap EXCEPT !.seen = @ \cup {[cash |-> s.cash, positions |-> s.positions]}]

SetStore(s) ==
    /\ cash_row' = s.cash
    /\ positions' = s.positions
    /\ activity_log' = s.log

\* (variant: the INSERT sits inside the buy branch)
InsertActivityOnBuy(log, row) == IF row.kind = "buy" THEN Append(log, row) ELSE log

\* lines 250-259: INSERT INTO activity_log, the new row gets the highest id
InsertActivity(log, row) == Append(log, row)

\* The exception each raise statement of the loop constructs (lines 210, 214,
\* 238, 241): always a ValueError; text is the message's fixed part, arg the
\* value formatted into it.
ExceptionFor(error, t) ==
    CASE error = "UnsupportedTransactionKind" ->
            [type |-> "ValueError", text |-> "Unsupported transaction type: ", arg |-> t.kind]
      [] error = "InsufficientCash" ->
            [type |-> "ValueError", text |-> "Transaction set would cause negative cash balance", arg |-> ""]
      [] error = "NoSuchPosition" ->
            [type |-> "ValueError", text |-> "Cannot sell ; no existing position", arg |-> t.symbol]
      [] error = "OversizedSell" ->
            [type |-> "ValueError", text |-> "Cannot sell more shares than owned for ", arg |-> t.symbol]
      [] OTHER -> [type |-> "none", text |-> "", arg |-> ""]

\* raise ValueError(...): the exception leaves the with block, the connection
\* is closed, the call ends.
Raise(error) ==
    /\ pc' = "done"
    /\ result' = error
    /\ SetStore(StoreAfterClose)
    /\ cash_balance' = cash_row'
    /\ tx_positions' = positions'
    /\ tx_log' = activity_log'
    /\ UNCHANGED <<transactions, i, pre, replay, snap>>
    /\ Frame

\* One pass of the loop body that raises nothing: the position write, then
\* the activity_log INSERT of lines 250-259.
Continue(tbl) ==
    /\ cash_balance' = new_cash_balance
    /\ tx_positions' = tbl
    /\ tx_log' = InsertActivity(tx_log, LogRow(tx))
    /\ i' = i + 1
    /\ UNCHANGED <<cash_row, positions, activity_log, pc, transactions, result, pre, replay, snap>>
    /\ Frame

InLoop == pc = "loop" /\ i <= Len(transactions)

\* (variant: an empty batch is refused)
CallRefusingEmpty(batch) ==
    /\ pc = "idle"
    /\ transactions' = batch
    /\ pre' = [cash |-> cash_row, positions |-> positions, log |-> activity_log]
    /\ i' = 1
    /\ cash_balance' = cash_row
    /\ tx_positions' = positions
    /\ tx_log' = activity_log
    /\ IF batch = <<>>
       THEN pc' = "done" /\ result' = "EmptyBatch"
       ELSE pc' = "loop" /\ result' = "none"
    /\ replay' = NoReplay
    /\ UNCHANGED <<cash_row, positions, activity_log, snap>>
    /\ Frame

\* lines 197-206: the call; an empty batch returns at once
Call(batch) ==
    /\ pc = "idle"
    /\ transactions' = batch
    /\ pre' = [cash |-> cash_row, positions |-> positions, log |-> activity_log]
    /\ i' = 1
    /\ cash_balance' = cash_row
    /\ tx_positions' = positions
    /\ tx_log' = activity_log
    /\ IF batch = <<>>
       THEN pc' = "done" /\ result' = "ok"
       ELSE pc' = "loop" /\ result' = "none"
    /\ replay' = NoReplay
    /\ UNCHANGED <<cash_row, positions, activity_log, snap>>
    /\ Frame

RaiseUnsupported ==
    /\ InLoop
    /\ UnsupportedKind(tx.kind)
    /\ Raise("UnsupportedTransactionKind")

RaiseNegativeCash ==
    /\ InLoop
    /\ ~UnsupportedKind(tx.kind)
    /\ NegativeCash(new_cash_balance)
    /\ Raise("InsufficientCash")

Buy ==
    /\ InLoop
    /\ ~UnsupportedKind(tx.kind)
    /\ ~NegativeCash(new_cash_balance)
    /\ tx.kind = "buy"
    /\ Continue(UpsertPosition(tx_positions, tx.symbol, new_shares, new_avg))

RaiseNoPosition ==
    /\ InLoop
    /\ ~UnsupportedKind(tx.kind)
    /\ ~NegativeCash(new_cash_balance)
    /\ tx.kind # "buy"
    /\ position_rows = {}
    /\ Raise("NoSuchPosition")

RaiseOversized ==
    /\ InLoop
    /\ ~UnsupportedKind(tx.kind)
    /\ ~NegativeCash(new_cash_balance)
    /\ tx.kind # "buy"
    /\ position_rows # {}
    /\ Oversized(remaining_shares)
    /\ Raise("OversizedSell")

SellAll ==
    /\ InLoop
    /\ ~UnsupportedKind(tx.kind)
    /\ ~NegativeCash(new_cash_balance)
    /\ tx.kind # "buy"
    /\ position_rows # {}
    /\ ~Oversized(remaining_shares)
    /\ Exhausted(remaining_shares)
    /\ Continue(DeletePosition(tx_positions, tx.symbol))

SellPart ==
    /\ InLoop
    /\ ~UnsupportedKind(tx.kind)
    /\ ~NegativeCash(new_cash_balance)
    /\ tx.kind # "buy"
    /\ position_rows # {}
    /\ ~Oversized(remaining_shares)
    /\ ~Exhausted(remaining_shares)
    /\ Continue(UpdateShares(tx_positions, tx.symbol, remaining_shares))

\* lines 261-265, after the last pass of the loop
Commit ==
    /\ pc = "loop"
    /\ i > Len(transactions)
    /\ SetStore(StoreAfterCommit)
    /\ pc' = "done"
    /\ result' = "ok"
    /\ snap' = Overlapped(StoreAfterCommit)
    /\ UNCHANGED <<transactions, i, cash_balance, tx_positions, tx_log, pre, replay>>
    /\ Frame

\* The caller goes on after the call has returned or raised; the call's
\* locals are gone.
Return ==
    /\ pc = "done"
    /\ pc' = "idle"
    /\ transactions' = <<>>
    /\ i' = 1
    /\ result' = "none"
    /\ pre' = [cash |-> cash_row, positions |-> positions, log |-> activity_log]
    /\ cash_balance' = cash_row
    /\ tx_positions' = positions
    /\ tx_log' = activity_log
    /\ replay' = NoReplay
    /\ UNCHANGED <<cash_row, positions, activity_log, snap>>
    /\ Frame

Next ==
    \/ /\ pc = "idle"
       /\ \E n \in 0..MaxBatch :
             /\ Len(activity_log) + n <= MaxLog
             /\ \E batch \in Batches(n) : Call(batch)
    \/ RaiseUnsupported
    \/ RaiseNegativeCash
    \/ Buy
    \/ RaiseNoPosition
    \/ RaiseOversized
    \/ SellAll
    \/ SellPart
    \/ Commit
    \/ Return

Spec == Init /\ [][Next]_vars

\* ---- the other repository calls (repository.py:54-172) --------------------
\* They run between apply_transactions calls, each on a connection of its own
\* and committed before it returns.  MaxOps bounds how many are made.

\* the committed ledger
Ledger == [cash |-> cash_row, positions |-> positions, log |-> activity_log]

NoList == [limit |-> 0, stored |-> 0, rows |-> <<>>]

\* A repository call commits ledger s and returns nothing.
Committed(s) ==
    /\ pc = "idle"
    /\ ops < MaxOps
    /\ ops' = ops + 1
    /\ SetStore(s)
    /\ pre' = s
    /\ cash_balance' = s.cash
    /\ tx_positions' = s.positions
    /\ tx_log' = s.log
    /\ listed' = NoList
    /\ UNCHANGED <<pc, transactions, i, result, replay, snap, read>>

\* arguments offered to the calls
Activities == [agent : {"Explorer"}, kind : {"note"}, symbol : Symbols, shares : {0}, price : {0}]
PositionArgs == [symbol : Symbols, shares : {1, Tolerance + 1}, avg_price : {Rat(1, 1)}]
Balances == {0, 2 * InitialCash}
WatchlistEntry == [symbol : Symbols, note : {"watch"}]
EntryLists == UNION {[1..n -> WatchlistEntry] : n \in 0..2}
Markets == {"jp", "us", "eu"}
Goals == [goal_type : {"daily"}, content : {"grow"}]

\* (variant: the log keeps only its newest row)
record_activity_capped(activity) ==
    /\ Len(activity_log) < MaxLog
    /\ Committed([Ledger EXCEPT !.log = <<activity>>])
    /\ UNCHANGED <<watchlist, market, goals, replaced, initialized, prototype>>

\* lines 127-142
record_activity(activity) ==
    /\ Len(activity_log) < MaxLog
    /\ Committed([Ledger EXCEPT !.log = InsertActivity(@, activity)])
    /\ UNCHANGED <<watchlist, market, goals, replaced, initialized, prototype>>

\* lines 82-88
update_cash_balance(new_balance) ==
    /\ Committed([Ledger EXCEPT !.cash = new_balance])
    /\ UNCHANGED <<watchlist, market, goals, replaced, initialized, prototype>>

\* lines 97-106
upsert_position(position) ==
    /\ Committed([Ledger EXCEPT !.positions =
                     UpsertPosition(@, position.symbol, position.shares, position.avg_price)])
    /\ UNCHANGED <<watchlist, market, goals, replaced, initialized, prototype>>

\* lines 108-111
remove_position(symbol) ==
    /\ Committed([Ledger EXCEPT !.positions = DeletePosition(@, symbol)])
    /\ UNCHANGED <<watchlist, market, goals, replaced, initialized, prototype>>

\* (variant: the old rows stay)
DeleteWatchlistNone(tbl) == tbl

\* line 120: DELETE FROM watchlist
DeleteWatchlist(tbl) == {}

\* lines 121-124: executemany INSERT, one entry after the other; a symbol
\* already in the table violates UNIQUE (db.py:36) and raises IntegrityError.
RECURSIVE InsertEntries(_, _, _)
InsertEntries(tbl, entries, k) ==
    IF k > Len(entries) THEN [rows |-> tbl, raised |-> FALSE]
    ELSE IF \E r \in tbl : r.symbol = entries[k].symbol THEN [rows |-> tbl, raised |-> TRUE]
    ELSE InsertEntries(tbl \cup {entries[k]}, entries, k + 1)

\* (variant: what was written before the exception stays)
WatchlistAfterCloseAutocommit(tbl, written) == written

\* db.py:68-71: the connection is closed without commit, the DELETE and the
\* INSERTs are rolled back.
WatchlistAfterClose(tbl, written) == tbl

\* lines 118-125
replace_watchlist(entries) ==
    /\ Committed(Ledger)
    /\ LET written == InsertEntries(DeleteWatchlist(watchlist), entries, 1)
       IN  /\ watchlist' = IF written.raised
                           THEN WatchlistAfterClose(watchlist, written.rows)
                           ELSE written.rows
           /\ replaced' = [on |-> TRUE, entries |-> entries, raised |-> written.raised]
    /\ UNCHANGED <<market, goals, initialized, prototype>>

\* lines 113-116: SELECT symbol, note FROM watchlist ORDER BY symbol
RECURSIVE list_watchlist(_, _)
list_watchlist(tbl, k) ==
    IF k > Len(SymbolOrder) THEN <<>>
    ELSE LET rows == {r \in tbl : r.symbol = SymbolOrder[k]}
         IN  (IF rows = {} THEN <<>> ELSE <<CHOOSE r \in rows : TRUE>>)
                \o list_watchlist(tbl, k + 1)

\* lines 69-72, 54-62
set_market(m) ==
    /\ Committed(Ledger)
    /\ market' = IF m \notin {"jp", "us"} THEN market ELSE m
    /\ UNCHANGED <<watchlist, goals, replaced, initialized, prototype>>

\* lines 166-172
record_goal(goal) ==
    /\ Committed(Ledger)
    /\ goals' = Append(goals, goal)
    /\ UNCHANGED <<watchlist, market, replaced, initialized, prototype>>

\* ORDER BY id DESC: the rows of the log, newest first
RECURSIVE OrderByIdDesc(_)
OrderByIdDesc(log) ==
    IF log = <<>> THEN <<>>
    ELSE <<log[Len(log)]>> \o OrderByIdDesc(SubSeq(log, 1, Len(log) - 1))

\* LIMIT ? with a limit >= 0
Limit(rows, limit) == SubSeq(rows, 1, IF limit < Len(rows) THEN limit ELSE Len(rows))

\* (variant: ORDER BY id ASC)
list_activity_oldest_first(limit) ==
    /\ pc = "idle"
    /\ ops < MaxOps
    /\ ops' = ops + 1
    /\ listed' = [limit |-> limit, stored |-> Len(activity_log),
                  rows |-> Limit(activity_log, limit)]
    /\ UNCHANGED <<cash_row, positions, activity_log, pc, transactions, i, cash_balance,
                   tx_positions, tx_log, result, pre, watchlist, market, goals,
                   replay, snap, read, replaced, initialized, prototype>>

\* lines 144-164
list_activity(limit) ==
    /\ pc = "idle"
    /\ ops < MaxOps
    /\ ops' = ops + 1
    /\ listed' = [limit |-> limit, stored |-> Len(activity_log),
                  rows |-> Limit(OrderByIdDesc(activity_log), limit)]
    /\ UNCHANGED <<cash_row, positions, activity_log, pc, transactions, i, cash_balance,
                   tx_positions, tx_log, result, pre, watchlist, market, goals,
                   replay, snap, read, replaced, initialized, prototype>>

\* the transactions offered to apply_transactions next to the other calls
RepoTransaction ==
    [kind : Kinds, symbol : Symbols, shares : {Tolerance + 2}, price : {1}]

NextRepo ==
    \/ /\ pc = "idle"
       /\ \E n \in 0..MaxBatch :
             /\ Len(activity_log) + n <= MaxLog
             /\ \E batch \in [1..n -> RepoTransaction] : Call(batch)
    \/ RaiseUnsupported
    \/ RaiseNegativeCash
    \/ Buy
    \/ RaiseNoPosition
    \/ RaiseOversized
    \/ SellAll
    \/ SellPart
    \/ Commit
    \/ Return
    \/ \E activity \in Activities : record_activity(activity)
    \/ \E new_balance \in Balances : update_cash_balance(new_balance)
    \/ \E position \in PositionArgs : upsert_position(position)
    \/ \E symbol \in Symbols : remove_position(symbol)
    \/ \E entries \in EntryLists : replace_watchlist(entries)
    \/ \E m \in Markets : set_market(m)
    \/ \E goal \in Goals : record_goal(goal)
    \/ \E limit \in 0..(MaxLog + 1) : list_activity(limit)

SpecRepo == Init /\ [][NextRepo]_vars

\* ---- reads on other connections --------------------------------------------
\* (variant: another connection sees the rows a running call has written)
VisibleUncommitted == [cash |-> cash_row, positions |-> tx_positions, log |-> tx_log]

\* db.py:61-71: every repository call connects anew; its SELECTs see the
\* committed rows only.
Visible == [cash |-> cash_row, positions |-> positions, log |-> activity_log]

\* the transactions offered to apply_transactions while other threads read
ReaderTransaction == {t \in Transaction : t.price = 1 /\ t.shares \in {1, Tolerance + 2}}

NoRead == [what |-> "none", cash |-> 0, positions |-> {}, log |-> <<>>]

\* A call on another thread changes nothing but what it returns.
ReadOnly ==
    UNCHANGED <<cash_row, positions, activity_log, pc, transactions, i, cash_balance,
                tx_positions, tx_log, result, pre, watchlist, market, goals, ops,
                replay, snap, listed, replaced, initialized, prototype>>

\* lines 77-80
get_cash_balance ==
    /\ read' = [NoRead EXCEPT !.what = "cash", !.cash = Visible.cash]
    /\ ReadOnly

\* lines 90-95
list_positions ==
    /\ read' = [NoRead EXCEPT !.what = "positions", !.positions = Visible.positions]
    /\ ReadOnly

\* lines 144-164, with the default limit
list_activity_default ==
    /\ read' = [NoRead EXCEPT !.what = "activity",
                              !.log = Limit(OrderByIdDesc(Visible.log), DefaultLimit)]
    /\ ReadOnly

NextReaders ==
    \/ /\ pc = "idle"
       /\ \E n \in 0..MaxBatch :
             /\ Len(activity_log) + n <= MaxLog
             /\ \E batch \in [1..n -> ReaderTransaction] : Call(batch)
    \/ RaiseUnsupported
    \/ RaiseNegativeCash
    \/ Buy
    \/ RaiseNoPosition
    \/ RaiseOversized
    \/ SellAll
    \/ SellPart
    \/ Commit
    \/ Return
    \/ get_cash_balance
    \/ list_positions
    \/ list_activity_default

SpecReaders == Init /\ [][NextReaders]_vars

\* ---- portfolio_snapshot on another thread (repository.py:190-195) ----------
\* The three arguments are evaluated in order, each by a call that opens its
\* own connection; snap.seen collects the committed (cash, positions) pairs
\* that existed at some moment of the snapshot.
SnapshotOnly ==
    UNCHANGED <<cash_row, positions, activity_log, pc, transactions, i, cash_balance,
                tx_positions, tx_log, result, pre, watchlist, market, goals, ops,
                replay, read, listed, replaced, initialized, prototype>>

\* line 192: cash_balance=self.get_cash_balance()
SnapshotCash ==
    /\ snap.pc = "idle"
    /\ snap' = [snap EXCEPT !.pc = "cash",
                            !.cash = Visible.cash,
                            !.seen = {[cash |-> Visible.cash, positions |-> Visible.positions]}]
    /\ SnapshotOnly

\* line 193: positions=self.list_positions()
SnapshotPositions ==
    /\ snap.pc = "cash"
    /\ snap' = [snap EXCEPT !.pc = "positions", !.positions = Visible.positions]
    /\ SnapshotOnly

\* line 194: watchlist=self.list_watchlist()
SnapshotWatchlist ==
    /\ snap.pc = "positions"
    /\ snap' = [snap EXCEPT !.pc = "done", !.watchlist = watchlist]
    /\ SnapshotOnly

\* the PortfolioSnapshot is returned; the next call starts afresh
SnapshotReturn ==
    /\ snap.pc = "done"
    /\ snap' = NoSnapshot
    /\ SnapshotOnly

NextSnapshot ==
    \/ /\ pc = "idle"
       /\ \E n \in 0..MaxBatch :
             /\ Len(activity_log) + n <= MaxLog
             /\ \E batch \in [1..n -> ReaderTransaction] : Call(batch)
    \/ RaiseUnsupported
    \/ RaiseNegativeCash
    \/ Buy
    \/ RaiseNoPosition
    \/ RaiseOversized
    \/ SellAll
    \/ SellPart
    \/ Commit
    \/ Return
    \/ SnapshotCash
    \/ SnapshotPositions
    \/ SnapshotWatchlist
    \/ SnapshotReturn
    \/ /\ ops = 0
       /\ \E entry \in WatchlistEntry : replace_watchlist(<<entry>>)

SpecSnapshot == Init /\ [][NextSnapshot]_vars

\* (variant: a batch that was already applied is recognised and skipped)
ReplayDeduplicated ==
    /\ pc = "done"
    /\ result = "ok"
    /\ ~replay.on
    /\ transactions # <<>>
    /\ Len(activity_log) + Len(transactions) <= MaxLog
    /\ replay' = [on |-> TRUE, cash |-> pre.cash, positions |-> pre.positions, log |-> pre.log]
    /\ pre' = [cash |-> cash_row, positions |-> positions, log |-> activity_log]
    /\ UNCHANGED <<cash_row, positions, activity_log, pc, transactions, i, cash_balance,
                   tx_positions, tx_log, result, snap>>
    /\ Frame

\* lines 197-206 entered a second time: the caller passes the list of the call
\* that has just succeeded once more.  The call starts from the ledger the
\* first one committed; replay keeps the ledger from before the first call.
Replay ==
    /\ pc = "done"
    /\ result = "ok"
    /\ ~replay.on
    /\ transactions # <<>>
    /\ Len(activity_log) + Len(transactions) <= MaxLog
    /\ replay' = [on |-> TRUE, cash |-> pre.cash, positions |-> pre.positions, log |-> pre.log]
    /\ pre' = [cash |-> cash_row, positions |-> positions, log |-> activity_log]
    /\ i' = 1
    /\ cash_balance' = cash_row
    /\ tx_positions' = positions
    /\ tx_log' = activity_log
    /\ pc' = "loop"
    /\ result' = "none"
    /\ UNCHANGED <<cash_row, positions, activity_log, transactions, snap>>
    /\ Frame

NextReplay == Next \/ Replay

SpecReplay == Init /\ [][NextReplay]_vars

\* ---- the ledger in whole shares and whole currency ------------------------
\* Here one share unit is one share and one cash unit one currency unit, so
\* the seeded balance is ScenarioCash.  Every amount of shares offered is a
\* multiple of 10, hence so is every holding and every remainder of a sell,
\* and for such numbers the comparisons against Tolerance give the answers
\* the comparisons against 1e-6 give.
ScenarioTransaction ==
    [kind : {"buy", "sell"}, symbol : {"ACME"}, shares : {10, 20, 2000}, price : {50, 70, 80}]
        \cup [kind : {"hold"}, symbol : {"ACME"}, shares : {10}, price : {50}]

\* db.py:74-104 on a new file
InitScenario ==
    /\ cash_row = ScenarioCash
    /\ positions = {}
    /\ activity_log = <<>>
    /\ pc = "idle"
    /\ transactions = <<>>
    /\ i = 1
    /\ cash_balance = ScenarioCash
    /\ tx_positions = {}
    /\ tx_log = <<>>
    /\ result = "none"
    /\ pre = [cash |-> ScenarioCash, positions |-> {}, log |-> <<>>]
    /\ watchlist = {}
    /\ market = "jp"
    /\ goals = <<>>
    /\ ops = 0
    /\ replay = NoReplay
    /\ snap = NoSnapshot
    /\ read = NoRead
    /\ listed = NoList
    /\ replaced = NoReplace
    /\ initialized = Created
    /\ prototype = PrototypeAt(WorkflowCash)

NextScenario ==
    \/ /\ pc = "idle"
       /\ Len(activity_log) < MaxLog
       /\ \E t \in ScenarioTransaction : Call(<<t>>)
    \/ RaiseUnsupported
    \/ RaiseNegativeCash
    \/ Buy
    \/ RaiseNoPosition
    \/ RaiseOversized
    \/ SellAll
    \/ SellPart
    \/ Commit
    \/ Return

SpecScenario == InitScenario /\ [][NextScenario]_vars

\* ---- PortfolioSnapshot (models.py:42-52) -----------------------------------
\* ORDER BY symbol (repository.py:93): the rows as the list list_positions returns
RECURSIVE OrderBySymbol(_, _)
OrderBySymbol(tbl, k) ==
    IF k > Len(SymbolOrder) THEN <<>>
    ELSE LET rows == SelectPosition(tbl, SymbolOrder[k])
         IN  (IF rows = {} THEN <<>> ELSE <<CHOOSE r \in rows : TRUE>>)
                \o OrderBySymbol(tbl, k + 1)

\* the prices a price_lookup may quote
Quotes == 0..(MaxPrice + 1)

\* (variant: the position is valued at its average cost)
market_value_at_cost(position, price) == (position.shares * position.avg_price.n) \div position.avg_price.d

\* models.py:16-17
market_value(position, price) == position.shares * price

\* models.py:48-49: sum(...) over self.positions, in list order
RECURSIVE total_market_value(_, _)
total_market_value(rows, price_lookup) ==
    IF rows = <<>> THEN 0
    ELSE market_value(Head(rows), price_lookup[Head(rows).symbol])
            + total_market_value(Tail(rows), price_lookup)

\* models.py:51-52
total_equity(snapshot, price_lookup) ==
    snapshot.cash + total_market_value(OrderBySymbol(snapshot.positions, 1), price_lookup)

\* ---- initialize_database on an existing store (db.py:74-104) ---------------
\* (variant: INSERT OR REPLACE)
InsertOrReplace(exists, row, value) == value

\* INSERT OR IGNORE INTO ... : the row is written only if the key is new
InsertOrIgnore(exists, row, value) == IF exists THEN row ELSE value

\* CREATE TABLE IF NOT EXISTS: an existing table keeps its rows
CreateIfNotExists(exists, tbl, empty) == IF exists THEN tbl ELSE empty

\* lines 86-104.  With force the file is unlinked first (lines 87-88), so no
\* table and no row exists when the schema statements run.
initialize_database(force) ==
    LET exists == ~force
    IN  /\ Committed([cash |-> InsertOrIgnore(exists, cash_row, InitialCash),
                      positions |-> CreateIfNotExists(exists, positions, {}),
                      log |-> CreateIfNotExists(exists, activity_log, <<>>)])
        /\ watchlist' = CreateIfNotExists(exists, watchlist, {})
        /\ goals' = CreateIfNotExists(exists, goals, <<>>)
        /\ market' = InsertOrIgnore(exists, market, "jp")
        /\ initialized' = [again |-> TRUE, force |-> force]
        /\ UNCHANGED <<replaced, prototype>>

NextInit ==
    \/ /\ pc = "idle"
       /\ \E n \in 0..MaxBatch :
             /\ Len(activity_log) + n <= MaxLog
             /\ \E batch \in [1..n -> RepoTransaction] : Call(batch)
    \/ RaiseUnsupported
    \/ RaiseNegativeCash
    \/ Buy
    \/ RaiseNoPosition
    \/ RaiseOversized
    \/ SellAll
    \/ SellPart
    \/ Commit
    \/ Return
    \/ \E position \in PositionArgs : upsert_position(position)
    \/ \E m \in Markets : set_market(m)
    \/ \E entry \in WatchlistEntry : replace_watchlist(<<entry>>)
    \/ \E force \in BOOLEAN : initialize_database(force)

SpecInit == Init /\ [][NextInit]_vars

\* ---- a second caller of apply_transactions ---------------------------------
\* The call runs on a connection of its own.  The first statement that takes
\* a lock is the first write (SQLite begins the transaction there), so
\* between the SELECT of the cash balance (lines 203-206) and the first pass
\* of the loop another call can run from its start to its commit.

\* lines 208-259 for one transaction t on the tables s, as the other call runs them
OtherPass(s, t) ==
    LET balance == s.cash + cash_impact(t)
        rows == SelectPosition(s.positions, t.symbol)
        row == CHOOSE r \in rows : TRUE
        shares == (IF rows # {} THEN row.shares ELSE 0) + t.shares
        avg == IF rows # {}
               THEN Rat(row.shares * row.avg_price.n + t.shares * t.price * row.avg_price.d,
                        row.avg_price.d * shares)
               ELSE Rat(t.price, 1)
        remaining == row.shares - t.shares
        written(tbl) == [raised |-> FALSE,
                         store |-> [cash |-> balance, positions |-> tbl,
                                    log |-> InsertActivity(s.log, LogRow(t))]]
        raise == [raised |-> TRUE, store |-> s]
    IN  IF UnsupportedKind(t.kind) THEN raise
        ELSE IF NegativeCash(balance) THEN raise
        ELSE IF t.kind = "buy" THEN written(UpsertPosition(s.positions, t.symbol, shares, avg))
        ELSE IF rows = {} THEN raise
        ELSE IF Oversized(remaining) THEN raise
        ELSE IF Exhausted(remaining) THEN written(DeletePosition(s.positions, t.symbol))
        ELSE written(UpdateShares(s.positions, t.symbol, remaining))

\* lines 201-265 for the batch from transaction k on
RECURSIVE OtherLoop(_, _, _)
OtherLoop(s, batch, k) ==
    IF k > Len(batch) THEN [raised |-> FALSE, store |-> s]
    ELSE LET pass == OtherPass(s, batch[k])
         IN  IF pass.raised THEN pass ELSE OtherLoop(pass.store, batch, k + 1)

\* (variant: the running call reads the cash balance again after the other commit)
OtherCallRefreshing(batch) ==
    /\ pc = "loop"
    /\ i = 1
    /\ tx_log = pre.log
    /\ LET other == OtherLoop(Ledger, batch, 1)
       IN  /\ ~other.raised
           /\ SetStore(other.store)
           /\ tx_positions' = other.store.positions
           /\ tx_log' = other.store.log
           /\ cash_balance' = other.store.cash
    /\ UNCHANGED <<pc, transactions, i, result, pre, replay, snap>>
    /\ Frame

\* Another call applies batch and commits while this call, having read the
\* cash balance into cash_balance, has not yet made its first pass.  This
\* call's connection sees the committed tables from then on; its local
\* cash_balance stays what it read.
OtherCall(batch) ==
    /\ pc = "loop"
    /\ i = 1
    /\ tx_log = pre.log
    /\ LET other == OtherLoop(Ledger, batch, 1)
       IN  /\ ~other.raised
           /\ SetStore(other.store)
           /\ tx_positions' = other.store.positions
           /\ tx_log' = other.store.log
    /\ UNCHANGED <<pc, transactions, i, cash_balance, result, pre, replay, snap>>
    /\ Frame

NextWriters ==
    \/ /\ pc = "idle"
       /\ \E n \in 0..MaxBatch :
             /\ Len(activity_log) + n <= MaxLog
             /\ \E batch \in [1..n -> ReaderTransaction] : Call(batch)
    \/ RaiseUnsupported
    \/ RaiseNegativeCash
    \/ Buy
    \/ RaiseNoPosition
    \/ RaiseOversized
    \/ SellAll
    \/ SellPart
    \/ Commit
    \/ Return
    \/ \E n \in 1..MaxBatch :
          /\ Len(activity_log) + Len(transactions) + n <= MaxLog
          /\ \E batch \in [1..n -> ReaderTransaction] : OtherCall(batch)

SpecWriters == Init /\ [][NextWriters]_vars

\* ---- DeciderAgent.run and PortfolioUpdaterAgent.run (agents.py:512-695) ---
\* Shares are in the ledger's unit of 5e-7 share and cash in price times that
\* unit, so the decider's quotient available_cash / price is kept to the
\* share unit.

\* round(shares, 4) rounds to 1e-4 share, 200 units of 5e-7 share
RoundStep == 200

\* one whole share in units of 5e-7 share (the // of line 544 floors to it)
WholeShare == 2000000

\* the balance the ledger holds when the agents run
DeciderCash == 250 * InitialCash

\* knowledge.py:286-295: a positive price fixed by the symbol's hash
lookup_price(symbol) == IF symbol = "ACME" THEN 4 ELSE 3

\* the "trades" array of the LLM's answer (schema of lines 560-581)
DeciderItem == [kind : {"buy", "sell"}, symbol : Symbols, shares : {150, 2000}]
DeciderResults == UNION {[1..n -> DeciderItem] : n \in 0..MaxBatch}

\* a holding written by upsert_position that is no multiple of 1e-4 share
DeciderPositions == [symbol : Symbols, shares : {150}, avg_price : {Rat(3, 1)}]

Smaller(a, b) == IF a <= b THEN a ELSE b
Larger(a, b) == IF a >= b THEN a ELSE b

\* Python's round(shares, 4): to the nearest step, a tie to the even one
round4(shares) ==
    LET steps == shares \div RoundStep
        rest == shares - steps * RoundStep
    IN  IF 2 * rest < RoundStep THEN steps * RoundStep
        ELSE IF 2 * rest > RoundStep THEN (steps + 1) * RoundStep
        ELSE IF steps % 2 = 0 THEN steps * RoundStep
        ELSE (steps + 1) * RoundStep

\* lines 541-553: at most one buy of up to five whole shares of the top symbol
fallback_trades(snapshot, top, confident) ==
    LET price_top == lookup_price(top)
        max_shares == Larger(0, snapshot.cash \div (price_top * WholeShare))
    IN  IF max_shares >= 1 /\ confident
        THEN <<[kind |-> "buy", symbol |-> top, shares |-> Smaller(max_shares, 5) * WholeShare]>>
        ELSE <<>>

\* line 594: current_positions, read with .get(symbol, 0.0)
CurrentPositions(snapshot) ==
    [s \in Symbols |->
        IF SelectPosition(snapshot.positions, s) = {} THEN 0
        ELSE (CHOOSE r \in SelectPosition(snapshot.positions, s) : TRUE).shares]

\* lines 596-632: the loop over the answer's trades from item k on
RECURSIVE DeciderTrades(_, _, _, _)
DeciderTrades(items, k, available_cash, current_positions) ==
    IF k > Len(items) THEN <<>>
    ELSE
        LET item == items[k]
            price == lookup_price(item.symbol)
            max_affordable == IF price > 0 THEN available_cash \div price ELSE 0
            owned == current_positions[item.symbol]
            shares == IF item.kind = "buy"
                      THEN Smaller(item.shares, Larger(0, max_affordable))
                      ELSE Smaller(item.shares, owned)
            skipped == \/ item.kind \notin {"buy", "sell"}
                       \/ item.shares <= 0
                       \/ item.kind = "buy" /\ (max_affordable <= 0 \/ shares < Tolerance)
                       \/ item.kind = "sell" /\ owned <= 0
        IN  IF skipped THEN DeciderTrades(items, k + 1, available_cash, current_positions)
            ELSE <<[kind |-> item.kind, symbol |-> item.symbol,
                    shares |-> round4(shares), price |-> price]>>
                 \o DeciderTrades(items, k + 1,
                        IF item.kind = "buy" THEN available_cash - shares * price
                        ELSE available_cash,
                        IF item.kind = "sell"
                        THEN [current_positions EXCEPT ![item.symbol] = owned - shares]
                        ELSE current_positions)

\* lines 634-652: the first fallback trade the cash left covers
RECURSIVE FallbackTrades(_, _, _)
FallbackTrades(trades, k, available_cash) ==
    IF k > Len(trades) THEN <<>>
    ELSE
        LET price == lookup_price(trades[k].symbol)
            shares == trades[k].shares
        IN  IF shares <= 0 \/ shares * price > available_cash
            THEN FallbackTrades(trades, k + 1, available_cash)
            ELSE <<[kind |-> trades[k].kind, symbol |-> trades[k].symbol,
                    shares |-> round4(shares), price |-> price]>>

\* lines 512-676: the batch DeciderAgent.run returns for the answer items
DeciderRun(snapshot, items, top, confident) ==
    LET trades == DeciderTrades(items, 1, snapshot.cash, CurrentPositions(snapshot))
    IN  IF trades = <<>>
        THEN FallbackTrades(fallback_trades(snapshot, top, confident), 1, snapshot.cash)
        ELSE trades

\* the rows _record_activity writes for the explorer and the decider
AgentRow(agent, activity_type) ==
    [agent |-> agent, kind |-> activity_type, symbol |-> "", shares |-> 0, price |-> 0]

\* lines 686-690: explorer, leader and decider run, each agent's activity row
\* is committed, then apply_transactions is called with the decider's batch
PortfolioUpdaterRun(items, top, confident) ==
    /\ pc = "idle"
    /\ ops < MaxOps
    /\ ops' = ops + 1
    /\ activity_log' = Append(Append(activity_log, AgentRow("Explorer", "discovery")),
                              AgentRow("Decider", "decision"))
    /\ transactions' = DeciderRun(Ledger, items, top, confident)
    /\ pre' = [cash |-> cash_row, positions |-> positions, log |-> activity_log']
    /\ i' = 1
    /\ cash_balance' = cash_row
    /\ tx_positions' = positions
    /\ tx_log' = activity_log'
    /\ IF transactions' = <<>>
       THEN pc' = "done" /\ result' = "ok"
       ELSE pc' = "loop" /\ result' = "none"
    /\ replay' = NoReplay
    /\ UNCHANGED <<cash_row, positions, snap, watchlist, market, goals, read, listed,
                   replaced, initialized, prototype>>

InitDecider ==
    /\ cash_row = DeciderCash
    /\ positions = {}
    /\ activity_log = <<>>
    /\ pc = "idle"
    /\ transactions = <<>>
    /\ i = 1
    /\ cash_balance = DeciderCash
    /\ tx_positions = {}
    /\ tx_log = <<>>
    /\ result = "none"
    /\ pre = [cash |-> DeciderCash, positions |-> {}, log |-> <<>>]
    /\ watchlist = {}
    /\ market = "jp"
    /\ goals = <<>>
    /\ ops = 0
    /\ replay = NoReplay
    /\ snap = NoSnapshot
    /\ read = NoRead
    /\ listed = NoList
    /\ replaced = NoReplace
    /\ initialized = Created
    /\ prototype = PrototypeAt(WorkflowCash)

NextDecider ==
    \/ \E items \in DeciderResults, top \in Symbols, confident \in BOOLEAN :
          PortfolioUpdaterRun(items, top, confident)
    \/ \E position \in DeciderPositions : upsert_position(position)
    \/ RaiseNegativeCash
    \/ Buy
    \/ RaiseNoPosition
    \/ RaiseOversized
    \/ SellAll
    \/ SellPart
    \/ Commit
    \/ Return

SpecDecider == InitDecider /\ [][NextDecider]_vars

\* ---- the in-memory prototype (src/backend/kabupilot_backend) --------------
\* Cash is in whole currency units, quantities in whole shares, scores in
\* tenths.

\* dicider.py:37: "assume 100 currency units per share"
AssumedSharePrice == 100

\* dicider.py:39: Decision(..., price=100.0)
BuyPrice == 100

\* dicider.py:29-30: the thresholds 0.6 and 0.4, in tenths
BuyScore == 6
SellScore == 4

\* the cash a PortfolioRepository is constructed with
PrototypeCashes == {250, WorkflowCash}

ResearchScore == [symbol : Symbols, score : {3, 5, 7}]
ScoreLists == UNION {[1..n -> ResearchScore] : n \in 0..MaxBatch}

\* every variable but the prototype's
LedgerVars == <<cash_row, positions, activity_log, pc, transactions, i, cash_balance,
                tx_positions, tx_log, result, pre, watchlist, market, goals, ops,
                replay, snap, read, listed, replaced, initialized>>

\* data_providers.py:28-29 and 31-32 on the positions dict
UpsertHolding(dict, symbol, quantity, average_price) ==
    [s \in DOMAIN dict \cup {symbol} |->
        IF s = symbol THEN [quantity |-> quantity, average_price |-> average_price]
        ELSE dict[s]]
RemoveHolding(dict, symbol) == [s \in DOMAIN dict \ {symbol} |-> dict[s]]

\* data_providers.py:50-55: investable_cash is the repository's cash
investable_cash(repository) == repository.cash

\* sorted(scores, key=score, reverse=True): stable, so item goes behind the
\* scores that are not lower
InsertByScore(sorted, item) ==
    LET k == Cardinality({j \in 1..Len(sorted) : sorted[j].score >= item.score})
    IN  SubSeq(sorted, 1, k) \o <<item>> \o SubSeq(sorted, k + 1, Len(sorted))

RECURSIVE scores_sorted(_)
scores_sorted(scores) ==
    IF scores = <<>> THEN <<>>
    ELSE InsertByScore(scores_sorted(SubSeq(scores, 1, Len(scores) - 1)), scores[Len(scores)])

IsBuyCandidate(score) == score.score >= BuyScore
buy_candidates(scores) == SelectSeq(scores_sorted(scores), IsBuyCandidate)

\* dicider.py:30, 42-44: the low scores whose symbol is held with quantity > 0
sell_candidates(scores, held) ==
    LET IsSellCandidate(score) ==
            /\ score.score <= SellScore
            /\ score.symbol \in DOMAIN held
            /\ held[score.symbol].quantity > 0
    IN  SelectSeq(scores_sorted(scores), IsSellCandidate)

\* dicider.py:33-35: investable_cash / len(buy_candidates), as a fraction
allocation(capital, n) == IF n = 0 THEN [n |-> 0, d |-> 1] ELSE [n |-> capital, d |-> n]

\* (variant: the quotient is rounded up)
quantity_rounded_up(share) ==
    (share.n + share.d * AssumedSharePrice - 1) \div (share.d * AssumedSharePrice)

\* dicider.py:37: int(allocation // 100)
quantity(share) == share.n \div (share.d * AssumedSharePrice)

\* dicider.py:36-40
BuyDecisions(candidates, share) ==
    IF quantity(share) > 0
    THEN [k \in 1..Len(candidates) |->
            [action |-> "buy", symbol |-> candidates[k].symbol,
             quantity |-> quantity(share), price |-> BuyPrice]]
    ELSE <<>>

\* dicider.py:42-47: max(1, position.quantity // 2) at the average price
SellDecisions(candidates, held) ==
    [k \in 1..Len(candidates) |->
        [action |-> "sell", symbol |-> candidates[k].symbol,
         quantity |-> Larger(1, held[candidates[k].symbol].quantity \div 2),
         price |-> held[candidates[k].symbol].average_price]]

\* dicider.py:18-60 and portfolio_updater.py:40-44: the decisions of a run
Dicider_run(scores, held, capital) ==
    BuyDecisions(buy_candidates(scores), allocation(capital, Len(buy_candidates(scores))))
        \o SellDecisions(sell_candidates(scores, held), held)

\* portfolio_updater.py:22-47: the run up to the call of _apply_decisions
PortfolioUpdater_run(scores) ==
    /\ prototype.pc = "idle"
    /\ prototype.runs < MaxOps
    /\ prototype' = [prototype EXCEPT
            !.pc = "apply",
            !.capital = investable_cash(prototype),
            !.decisions = Dicider_run(scores, prototype.positions, investable_cash(prototype)),
            !.i = 1,
            !.runs = @ + 1]
    /\ UNCHANGED LedgerVars

decision == prototype.decisions[prototype.i]

InApply == prototype.pc = "apply" /\ prototype.i <= Len(prototype.decisions)

\* portfolio_updater.py:64-65, 76-92
apply_buy ==
    LET price == decision.price
        cost == decision.quantity * price
        held == prototype.positions
        total_quantity == held[decision.symbol].quantity + decision.quantity
        new_avg_price ==
            IF total_quantity > 0
            THEN (held[decision.symbol].average_price * held[decision.symbol].quantity
                    + price * decision.quantity) \div total_quantity
            ELSE price
    IN  /\ InApply
        /\ decision.action = "buy"
        /\ prototype' = [prototype EXCEPT
                !.cash = Larger(0, prototype.cash - cost),
                !.positions =
                    IF decision.symbol \in DOMAIN held
                    THEN UpsertHolding(held, decision.symbol, total_quantity, new_avg_price)
                    ELSE UpsertHolding(held, decision.symbol, decision.quantity, price),
                !.i = @ + 1]
        /\ UNCHANGED LedgerVars

\* portfolio_updater.py:66-67, 94-105
apply_sell ==
    LET price == decision.price
        proceeds == decision.quantity * price
        held == prototype.positions
        remaining == held[decision.symbol].quantity - decision.quantity
    IN  /\ InApply
        /\ decision.action = "sell"
        /\ prototype' = [prototype EXCEPT
                !.cash = prototype.cash + proceeds,
                !.positions =
                    IF decision.symbol \in DOMAIN held
                    THEN IF remaining > 0
                         THEN UpsertHolding(held, decision.symbol, remaining,
                                            held[decision.symbol].average_price)
                         ELSE RemoveHolding(held, decision.symbol)
                    ELSE held,
                !.i = @ + 1]
        /\ UNCHANGED LedgerVars

\* portfolio_updater.py:48-60: the loop has ended, run returns its summary
apply_decisions_end ==
    /\ prototype.pc = "apply"
    /\ prototype.i > Len(prototype.decisions)
    /\ prototype' = [prototype EXCEPT !.pc = "idle"]
    /\ UNCHANGED LedgerVars

InitPrototype ==
    /\ cash_row = InitialCash
    /\ positions = {}
    /\ activity_log = <<>>
    /\ pc = "idle"
    /\ transactions = <<>>
    /\ i = 1
    /\ cash_balance = InitialCash
    /\ tx_positions = {}
    /\ tx_log = <<>>
    /\ result = "none"
    /\ pre = [cash |-> InitialCash, positions |-> {}, log |-> <<>>]
    /\ watchlist = {}
    /\ market = "jp"
    /\ goals = <<>>
    /\ ops = 0
    /\ replay = NoReplay
    /\ snap = NoSnapshot
    /\ read = NoRead
    /\ listed = NoList
    /\ replaced = NoReplace
    /\ initialized = Created
    /\ \E cash \in PrototypeCashes : prototype = PrototypeAt(cash)

NextPrototype ==
    \/ \E scores \in ScoreLists : PortfolioUpdater_run(scores)
    \/ apply_buy
    \/ apply_sell
    \/ apply_decisions_end

SpecPrototype == InitPrototype /\ [][NextPrototype]_vars

\* ==== Properties ==========================================================
\* Helpers of the properties, written from the ledger's data alone.
Ended == pc = "done"
Succeeded == pc = "done" /\ result = "ok"
Failed == pc = "done" /\ result # "ok"
StoreIsPre == cash_row = pre.cash /\ positions = pre.positions /\ activity_log = pre.log

Rows(tbl, symbol) == {r \in tbl : r.symbol = symbol}
SharesHeld(tbl, symbol) == IF Rows(tbl, symbol) = {} THEN 0 ELSE (CHOOSE r \in Rows(tbl, symbol) : TRUE).shares
Cost(t) == t.shares * t.price

\* cash before transaction k of the batch, had every earlier one been booked
RECURSIVE CashBefore(_)
CashBefore(k) ==
    IF k = 1 THEN pre.cash
    ELSE LET t == transactions[k - 1]
         IN  CashBefore(k - 1) + (IF t.kind = "buy" THEN 0 - Cost(t) ELSE Cost(t))

\* C1: a call that raises (unsupported kind, insufficient cash, no position,
\* oversized sell) leaves cash, positions and activity log as they were
\* before the call, whatever the earlier transactions of the batch did.
C1_Atomicity == Failed => StoreIsPre

C1_Witness ==
    /\ Failed
    /\ i > 1
    /\ transactions[1].kind = "buy"
    /\ transactions[1].shares > Tolerance

\* C2: the committed cash balance is never negative.
C2_CashNonNegative == cash_row >= 0

C2_Witness == Succeeded /\ cash_row = 0 /\ pre.cash > 0

\* C3: every committed position holds more than the tolerance (1e-6 share).
C3_SharesAboveTolerance == \A r \in positions : r.shares > Tolerance

\* C4: a batch with a buy that costs more than the cash left at its place
\* fails as a whole and changes nothing, also when a later sell of the batch
\* would have restored the balance.
C4_OverspendFails ==
    (Ended /\ \E k \in 1..Len(transactions) :
                 transactions[k].kind = "buy" /\ Cost(transactions[k]) > CashBefore(k))
        => (Failed /\ StoreIsPre)

C4_Witness ==
    /\ pc = "done"
    /\ result = "InsufficientCash"
    /\ Len(transactions) = 2
    /\ i = 1
    /\ transactions[2].kind = "sell"
    /\ SharesHeld(pre.positions, transactions[2].symbol) >= transactions[2].shares
    /\ CashBefore(3) >= 0

\* C5: a batch is booked in submission order against the effects of its own
\* earlier transactions: a sell funds a later buy, and a sell is checked
\* against the holding as enlarged by an earlier buy of the same batch.
C5_SellFundsBuy ==
    LET a == transactions[1]
        b == transactions[2]
    IN  (/\ a.kind = "sell" /\ b.kind = "buy"
         /\ Rows(pre.positions, a.symbol) # {}
         /\ a.shares <= SharesHeld(pre.positions, a.symbol) + Tolerance
         /\ Cost(b) <= pre.cash + Cost(a))
            => (result = "ok" /\ cash_row = pre.cash + Cost(a) - Cost(b))

C5_BuyBacksSell ==
    LET a == transactions[1]
        b == transactions[2]
    IN  (/\ a.kind = "buy" /\ b.kind = "sell" /\ a.symbol = b.symbol
         /\ Cost(a) <= pre.cash
         /\ b.shares <= SharesHeld(pre.positions, a.symbol) + a.shares + Tolerance)
            => (result = "ok" /\ cash_row = pre.cash - Cost(a) + Cost(b))

C5_InBatchOrder ==
    (Ended /\ Len(transactions) = 2) => (C5_SellFundsBuy /\ C5_BuyBacksSell)

C5_Witness ==
    /\ Succeeded
    /\ Len(transactions) = 2
    /\ transactions[1].kind = "buy"
    /\ transactions[2].kind = "sell"
    /\ transactions[1].symbol = transactions[2].symbol
    /\ transactions[2].shares > SharesHeld(pre.positions, transactions[2].symbol) + Tolerance

C5_WitnessFunding ==
    /\ Succeeded
    /\ Len(transactions) = 2
    /\ transactions[1].kind = "sell"
    /\ transactions[2].kind = "buy"
    /\ Cost(transactions[2]) > pre.cash

\* the loop is at a transaction of the given kind, and passes it
Passes(kind) == InLoop /\ tx.kind = kind /\ pc' = "loop" /\ i' = i + 1
Others(tbl, symbol) == {r \in tbl : r.symbol # symbol}

\* C6: a sell of a symbol with no open position, or of more shares than the
\* position holds by more than the tolerance, raises and leaves cash,
\* positions and log as before the batch.
C6_Step ==
    (/\ InLoop
     /\ tx.kind = "sell"
     /\ \/ Rows(tx_positions, tx.symbol) = {}
        \/ tx.shares > SharesHeld(tx_positions, tx.symbol) + Tolerance)
        => /\ pc' = "done"
           /\ result' = (IF Rows(tx_positions, tx.symbol) = {} THEN "NoSuchPosition" ELSE "OversizedSell")
           /\ cash_row' = pre.cash /\ positions' = pre.positions /\ activity_log' = pre.log

C6_BadSellFails == [][C6_Step]_vars

C6_Witness ==
    /\ pc = "done"
    /\ result = "OversizedSell"
    /\ i = 2
    /\ transactions[1].symbol = transactions[2].symbol
    /\ StoreIsPre

C6_WitnessNoPosition == pc = "done" /\ result = "NoSuchPosition" /\ i = 2 /\ StoreIsPre

\* C7: a batch holding a transaction of a kind other than buy and sell, at
\* whatever index, raises and persists nothing of the batch.
C7_UnsupportedKindFails ==
    (Ended /\ \E k \in 1..Len(transactions) : transactions[k].kind \notin {"buy", "sell"})
        => (Failed /\ StoreIsPre)

C7_Witness ==
    /\ pc = "done"
    /\ result = "UnsupportedTransactionKind"
    /\ i = 2
    /\ transactions[1].kind = "buy"
    /\ Rows(pre.positions, transactions[2].symbol) # {}

\* C8: a buy of a symbol without position opens one with the bought shares at
\* the buy's price; a buy of a held symbol adds the shares and sets avg_price
\* to (old_shares * old_avg + shares * price) / new_shares; hence a symbol
\* that was only ever bought holds the sum of the lots, and shares *
\* avg_price is the sum of the lots' costs, over one batch or several.
C8_Step ==
    Passes("buy") =>
        LET old == Rows(tx_positions, tx.symbol)
            new == Rows(tx_positions', tx.symbol)
        IN  /\ Cardinality(new) = 1
            /\ Others(tx_positions', tx.symbol) = Others(tx_positions, tx.symbol)
            /\ \A q \in new :
                  IF old = {}
                  THEN q.shares = tx.shares /\ q.avg_price.n = tx.price * q.avg_price.d
                  ELSE \A o \in old :
                          /\ q.shares = o.shares + tx.shares
                          /\ q.avg_price.n * q.shares * o.avg_price.d
                                 = (o.shares * o.avg_price.n + Cost(tx) * o.avg_price.d) * q.avg_price.d

RECURSIVE BoughtShares(_, _, _)
BoughtShares(log, k, symbol) ==
    IF k = 0 THEN 0
    ELSE BoughtShares(log, k - 1, symbol) + (IF log[k].symbol = symbol THEN log[k].shares ELSE 0)

RECURSIVE BoughtCost(_, _, _)
BoughtCost(log, k, symbol) ==
    IF k = 0 THEN 0
    ELSE BoughtCost(log, k - 1, symbol) + (IF log[k].symbol = symbol THEN Cost(log[k]) ELSE 0)

OnlyBought(log, symbol) ==
    /\ \E k \in 1..Len(log) : log[k].symbol = symbol
    /\ \A k \in 1..Len(log) : log[k].symbol = symbol => log[k].kind = "buy"

C8_Sum ==
    \A symbol \in Symbols :
        OnlyBought(activity_log, symbol) =>
            /\ Cardinality(Rows(positions, symbol)) = 1
            /\ \A r \in Rows(positions, symbol) :
                  /\ r.shares = BoughtShares(activity_log, Len(activity_log), symbol)
                  /\ r.shares * r.avg_price.n
                         = BoughtCost(activity_log, Len(activity_log), symbol) * r.avg_price.d

C8_CostBasis == []C8_Sum /\ [][C8_Step]_vars

C8_Witness ==
    /\ Succeeded
    /\ pre.log # <<>>
    /\ \E symbol \in Symbols :
          /\ OnlyBought(activity_log, symbol)
          /\ \E j, k \in 1..Len(activity_log) :
                /\ j < k
                /\ activity_log[j].symbol = symbol /\ activity_log[k].symbol = symbol
                /\ activity_log[j].price # activity_log[k].price
                /\ activity_log[j].shares # activity_log[k].shares

\* C9: a sell that leaves the position open changes the shares of that
\* position to old_shares - tx.shares and nothing else: not its avg_price,
\* not any other position.
C9_Step ==
    (Passes("sell") /\ Rows(tx_positions', tx.symbol) # {}) =>
        tx_positions' = Others(tx_positions, tx.symbol) \cup
            {[symbol |-> r.symbol, shares |-> r.shares - tx.shares, avg_price |-> r.avg_price] :
                r \in Rows(tx_positions, tx.symbol)}

C9_Single ==
    (Succeeded /\ Len(transactions) = 1 /\ transactions[1].kind = "sell"
        /\ Rows(positions, transactions[1].symbol) # {}) =>
        positions = Others(pre.positions, transactions[1].symbol) \cup
            {[symbol |-> r.symbol, shares |-> r.shares - transactions[1].shares, avg_price |-> r.avg_price] :
                r \in Rows(pre.positions, transactions[1].symbol)}

C9_SellNeutrality == []C9_Single /\ [][C9_Step]_vars

C9_Witness ==
    /\ Succeeded
    /\ Len(transactions) = 1
    /\ transactions[1].kind = "sell"
    /\ Rows(positions, transactions[1].symbol) # {}
    /\ Others(positions, transactions[1].symbol) # {}

C9_WitnessBlended ==
    /\ Succeeded
    /\ Len(transactions) = 1
    /\ transactions[1].kind = "sell"
    /\ \E r \in Rows(positions, transactions[1].symbol) : r.avg_price.d > 1

\* C10: a sell that is not oversized and leaves at most the tolerance (1e-6
\* share, the full holding included) deletes the position row, and its
\* proceeds shares * price are credited to cash.
C10_Step ==
    (/\ InLoop
     /\ tx.kind = "sell"
     /\ Rows(tx_positions, tx.symbol) # {}
     /\ SharesHeld(tx_positions, tx.symbol) - tx.shares <= Tolerance
     /\ SharesHeld(tx_positions, tx.symbol) - tx.shares >= 0 - Tolerance)
        => /\ pc' = "loop"
           /\ tx_positions' = Others(tx_positions, tx.symbol)
           /\ cash_balance' = cash_balance + Cost(tx)

C10_Single ==
    (/\ Ended
     /\ Len(transactions) = 1
     /\ transactions[1].kind = "sell"
     /\ Rows(pre.positions, transactions[1].symbol) # {}
     /\ SharesHeld(pre.positions, transactions[1].symbol) - transactions[1].shares <= Tolerance
     /\ SharesHeld(pre.positions, transactions[1].symbol) - transactions[1].shares >= 0 - Tolerance)
        => /\ result = "ok"
           /\ positions = Others(pre.positions, transactions[1].symbol)
           /\ cash_row = pre.cash + Cost(transactions[1])

C10_SellOutDeletes == []C10_Single /\ [][C10_Step]_vars

C10_Witness ==
    /\ Succeeded
    /\ Len(transactions) = 1
    /\ transactions[1].kind = "sell"
    /\ SharesHeld(pre.positions, transactions[1].symbol) - transactions[1].shares = Tolerance
    /\ Rows(positions, transactions[1].symbol) = {}
    /\ cash_row > pre.cash

C10_WitnessFull ==
    /\ Succeeded
    /\ Len(transactions) = 1
    /\ transactions[1].kind = "sell"
    /\ SharesHeld(pre.positions, transactions[1].symbol) = transactions[1].shares
    /\ Rows(positions, transactions[1].symbol) = {}

\* the exception the caller of the failed call catches
Exception == ExceptionFor(result, transactions[i])

\* C11: a call that succeeds on n transactions appends exactly n rows to the
\* activity log, one per transaction in submission order, committed together
\* with the cash and position changes; a call that fails appends none.
C11_LogGrowth ==
    /\ pc = "loop" => activity_log = pre.log
    /\ Failed => activity_log = pre.log
    /\ Succeeded =>
          /\ Len(activity_log) = Len(pre.log) + Len(transactions)
          /\ \A k \in 1..Len(pre.log) : activity_log[k] = pre.log[k]
          /\ \A k \in 1..Len(transactions) :
                LET row == activity_log[Len(pre.log) + k]
                    t == transactions[k]
                IN  /\ row.agent = "Decider"
                    /\ row.kind = t.kind /\ row.symbol = t.symbol
                    /\ row.shares = t.shares /\ row.price = t.price
          /\ (activity_log # pre.log) => (cash_row = cash_balance /\ positions = tx_positions)

C11_Witness ==
    /\ Succeeded
    /\ pre.log # <<>>
    /\ Len(transactions) = 2
    /\ transactions[1].kind = "buy"
    /\ transactions[2].kind = "sell"
    /\ transactions[1] # transactions[2]

C11_WitnessFailed == Failed /\ i = 2 /\ pre.log # <<>>

\* C16: every failure reaches the caller as an error whose type tells the
\* four failure kinds apart and which identifies the offending transaction
\* among those of the batch.
C16_TypedErrors ==
    Failed =>
        /\ Exception.type = result
        /\ \A k \in 1..Len(transactions) :
              k # i => ExceptionFor(result, transactions[k]) # Exception

\* C20: every committed position has avg_price > 0.
C20_AvgPositive == \A r \in positions : r.avg_price.n > 0 /\ r.avg_price.d > 0

\* the second of two successive applications of one batch has ended
Replayed == replay.on /\ pc = "done"

\* net cash and, per symbol, net shares of the whole batch
RECURSIVE NetCash(_)
NetCash(k) == IF k = 0 THEN 0 ELSE NetCash(k - 1) + cash_impact(transactions[k])

RECURSIVE NetShares(_, _)
NetShares(k, symbol) ==
    IF k = 0 THEN 0
    ELSE LET t == transactions[k]
         IN  NetShares(k - 1, symbol)
               + (IF t.symbol # symbol THEN 0
                  ELSE IF t.kind = "buy" THEN t.shares ELSE 0 - t.shares)

Sells(symbol) ==
    Cardinality({k \in 1..Len(transactions) :
                    transactions[k].kind = "sell" /\ transactions[k].symbol = symbol})

BatchRows == [k \in 1..Len(transactions) |-> LogRow(transactions[k])]

\* C13 as claimed: applying a batch a second time right after the first
\* applies its cash change and its per-symbol share changes twice and adds
\* its log rows twice.
C13_ReplayDoubles ==
    Replayed =>
        /\ result = "ok"
        /\ cash_row = replay.cash + 2 * NetCash(Len(transactions))
        /\ \A s \in Symbols :
              SharesHeld(positions, s)
                 = SharesHeld(replay.positions, s) + 2 * NetShares(Len(transactions), s)
        /\ activity_log = replay.log \o BatchRows \o BatchRows

\* C13: nothing recognises a batch applied before; the second application is
\* validated and booked like any other call against the ledger the first one
\* left.  If it fails, the ledger stays as the first application left it.  If
\* it succeeds, the cash change is applied twice, the log gains the batch's
\* rows twice, and each symbol's share change is applied twice, exactly for a
\* symbol the batch does not sell and otherwise up to the remainders (at most
\* the tolerance per sell, of either sign) dropped by sells that close a
\* position.
C13_ReplayReapplies ==
    Replayed =>
        /\ pre.cash = replay.cash + NetCash(Len(transactions))
        /\ pre.log = replay.log \o BatchRows
        /\ result # "ok" => StoreIsPre
        /\ result = "ok" =>
              /\ cash_row = replay.cash + 2 * NetCash(Len(transactions))
              /\ activity_log = replay.log \o BatchRows \o BatchRows
              /\ \A s \in Symbols :
                    LET change == SharesHeld(positions, s) - SharesHeld(replay.positions, s)
                        twice == 2 * NetShares(Len(transactions), s)
                    IN  /\ change <= twice + 2 * Tolerance * Sells(s)
                        /\ change >= twice - 2 * Tolerance * Sells(s)
                        /\ Sells(s) = 0 => change = twice

C13_Witness ==
    /\ Replayed
    /\ result = "ok"
    /\ transactions[1].kind = "buy"
    /\ transactions[1].price > 0
    /\ replay.log # <<>>

C13_WitnessRejected == Replayed /\ result = "NoSuchPosition"

C13_WitnessRemainder ==
    /\ Replayed
    /\ result = "ok"
    /\ \E s \in Symbols :
          SharesHeld(positions, s) - SharesHeld(replay.positions, s)
             # 2 * NetShares(Len(transactions), s)

\* C12: a call with an empty batch ends at once with success, and cash,
\* positions, watchlist and activity log (and market and goals) are as before.
C12_EmptyBatchNoOp ==
    [][(pc = "idle" /\ pc' # "idle" /\ transactions' = <<>>) =>
          /\ pc' = "done"
          /\ result' = "ok"
          /\ UNCHANGED <<cash_row, positions, watchlist, activity_log, market, goals>>]_vars

C12_Witness ==
    /\ Succeeded
    /\ transactions = <<>>
    /\ positions # {}
    /\ watchlist # {}
    /\ activity_log # <<>>

\* C17: no step of any repository call shortens the activity log or changes
\* a row already in it; rows are only ever added after the last one.
C17_AppendOnly ==
    [][/\ Len(activity_log') >= Len(activity_log)
       /\ \A k \in 1..Len(activity_log) : activity_log'[k] = activity_log[k]]_vars

C17_Witness ==
    /\ Failed
    /\ Len(activity_log) = 2
    /\ activity_log[1].agent = "Decider"
    /\ activity_log[2].agent = "Explorer"
    /\ watchlist # {}

\* C18: list_activity(limit), limit >= 0, returns min(limit, N) rows of the N
\* stored: the rows added last, the newest first.
C18_NewestFirst ==
    /\ listed.stored <= Len(activity_log)
    /\ Len(listed.rows) = (IF listed.limit < listed.stored THEN listed.limit ELSE listed.stored)
    /\ Len(listed.rows) <= listed.limit
    /\ \A k \in 1..Len(listed.rows) : listed.rows[k] = activity_log[listed.stored + 1 - k]

C18_Witness ==
    /\ listed.limit = 2
    /\ listed.stored = MaxLog
    /\ listed.rows[1] # listed.rows[2]

C18_WitnessShort == listed.limit > listed.stored /\ listed.stored >= 2

\* C19: no table of positions, committed or being written by a running call,
\* ever holds two rows for one symbol.
C19_OneRowPerSymbol ==
    \A s \in Symbols :
        /\ Cardinality(Rows(positions, s)) <= 1
        /\ Cardinality(Rows(tx_positions, s)) <= 1

\* two buys of one symbol in one batch, on top of a row written by upsert_position
C19_Witness ==
    /\ Succeeded
    /\ Len(transactions) = 2
    /\ transactions[1].kind = "buy"
    /\ transactions[2] = transactions[1]
    /\ Rows(pre.positions, transactions[1].symbol) # {}
    /\ SharesHeld(positions, transactions[1].symbol) = Tolerance + 1 + 2 * transactions[1].shares

C19_WitnessUpsert ==
    /\ pc = "idle"
    /\ ops > 0
    /\ \E r \in positions : r.shares = Tolerance + 1 /\ r.symbol = "X"
    /\ \E k \in 1..Len(activity_log) :
          activity_log[k].kind = "buy" /\ activity_log[k].symbol = "X"

\* C14: a finished portfolio_snapshot holds the cash balance and the
\* positions of one committed state of the ledger, one that existed at some
\* moment of the call.
C14_SnapshotPointInTime ==
    snap.pc = "done" =>
        \E st \in snap.seen : st.cash = snap.cash /\ st.positions = snap.positions

\* C15: a read on another connection never returns rows written by a call
\* that has not committed: while a call runs, and after it has failed, the
\* read returns what was stored before the call; after the commit it returns
\* what the call committed.
C15_NoPartialBatch ==
    [][read' # read =>
          LET shown == IF pc = "done" /\ result = "ok" THEN StoreAfterCommit ELSE pre
          IN  /\ read'.what = "cash" => read'.cash = shown.cash
              /\ read'.what = "positions" => read'.positions = shown.positions
              /\ read'.what = "activity" => read'.log = OrderByIdDesc(shown.log)]_vars

\* reads made while the running call has written rows it has not committed
C15_Witness ==
    /\ pc = "loop"
    /\ i = 2
    /\ read.what = "positions"
    /\ read.positions = pre.positions
    /\ tx_positions # positions

C15_WitnessActivity ==
    /\ Failed
    /\ read.what = "activity"
    /\ read.log = OrderByIdDesc(pre.log)
    /\ Len(read.log) = 2
    /\ read.log[1] # read.log[2]

\* the three calls of the scenario, as the log records them
ScenarioA == LogRow([kind |-> "buy", symbol |-> "ACME", shares |-> 10, price |-> 50])
ScenarioB == LogRow([kind |-> "buy", symbol |-> "ACME", shares |-> 10, price |-> 70])
ScenarioD == LogRow([kind |-> "sell", symbol |-> "ACME", shares |-> 20, price |-> 80])

\* C21: from the fresh ledger (cash 100000), buy 10 ACME @ 50 gives cash
\* 99500 and ACME {10, 50}; then buy 10 ACME @ 70 gives cash 98800 and ACME
\* {20, 60}; then sell 20 ACME @ 80 removes ACME and gives cash 100400.
C21_Scenario ==
    /\ activity_log = <<ScenarioA>> =>
          /\ cash_row = 99500
          /\ positions = {[symbol |-> "ACME", shares |-> 10, avg_price |-> [n |-> 50, d |-> 1]]}
    /\ activity_log = <<ScenarioA, ScenarioB>> =>
          /\ cash_row = 98800
          /\ positions = {[symbol |-> "ACME", shares |-> 20, avg_price |-> [n |-> 60, d |-> 1]]}
    /\ activity_log = <<ScenarioA, ScenarioB, ScenarioD>> =>
          /\ cash_row = 100400
          /\ positions = {}

C21_Witness ==
    /\ Succeeded
    /\ transactions = <<[kind |-> "sell", symbol |-> "ACME", shares |-> 20, price |-> 80]>>
    /\ activity_log = <<ScenarioA, ScenarioB, ScenarioD>>

\* C22: for every finished snapshot and every price function, total_equity is
\* the cash balance plus, for every open position, shares * price of its
\* symbol; the watchlist does not enter.
C22_TotalEquity ==
    snap.pc = "done" =>
        \A price_lookup \in [Symbols -> Quotes] :
            LET held(s) == SharesHeld(snap.positions, s)
            IN  /\ total_equity(snap, price_lookup)
                      = snap.cash + held("ACME") * price_lookup["ACME"] + held("X") * price_lookup["X"]
                /\ total_equity([snap EXCEPT !.watchlist = {}], price_lookup)
                      = total_equity(snap, price_lookup)

C22_Witness ==
    /\ snap.pc = "done"
    /\ Cardinality(snap.positions) = 2
    /\ snap.watchlist # {}
    /\ snap.cash > 0
    /\ \E r \in snap.positions : r.shares > 1

\* the entries have pairwise distinct symbols
Distinct(entries) ==
    \A j, k \in DOMAIN entries : j # k => entries[j].symbol # entries[k].symbol

SymbolRank(symbol) == CHOOSE k \in DOMAIN SymbolOrder : SymbolOrder[k] = symbol

\* the step is a replace_watchlist call
Replaces == replaced' # replaced

\* C23: after replace_watchlist(E) with pairwise distinct symbols the call
\* has not raised and list_watchlist returns exactly the entries of E, in
\* symbol order, whatever was stored before; the call leaves cash, positions
\* and activity log as they were.
C23_Stored ==
    (replaced.on /\ Distinct(replaced.entries)) =>
        LET rows == list_watchlist(watchlist, 1)
        IN  /\ ~replaced.raised
            /\ Len(rows) = Len(replaced.entries)
            /\ {rows[k] : k \in DOMAIN rows} = {replaced.entries[k] : k \in DOMAIN replaced.entries}
            /\ \A j, k \in DOMAIN rows : j < k => SymbolRank(rows[j].symbol) < SymbolRank(rows[k].symbol)

C23_Step == Replaces => UNCHANGED <<cash_row, positions, activity_log>>

C23_ReplaceAll == []C23_Stored /\ [][C23_Step]_vars

\* a two-entry list given in reverse symbol order, after another watchlist
\* had been stored, on a ledger with a position and a log row
C23_Witness ==
    /\ replaced.on
    /\ Len(replaced.entries) = 2
    /\ replaced.entries[1].symbol = "X"
    /\ ~replaced.raised
    /\ ops = 2
    /\ positions # {}
    /\ activity_log # <<>>

\* C29: replace_watchlist with a symbol given twice raises, and the
\* watchlist is what it was before the call.
C29_Step ==
    (Replaces /\ ~Distinct(replaced'.entries)) =>
        /\ replaced'.raised
        /\ watchlist' = watchlist

C29_DuplicateRejected == [][C29_Step]_vars

C29_Witness ==
    /\ replaced.on
    /\ replaced.raised
    /\ Len(replaced.entries) = 2
    /\ watchlist # {}

\* C24: initialize_database without force on the existing store leaves cash
\* balance, positions, activity log and market as they are (and so the
\* watchlist and the goals); with force it gives the store Init describes:
\* cash 100000 and market "jp".
C24_Step ==
    /\ (initialized' # initialized /\ ~initialized'.force) =>
          UNCHANGED <<cash_row, positions, activity_log, market, watchlist, goals>>
    /\ (initialized' # initialized /\ initialized'.force) =>
          /\ cash_row' = InitialCash
          /\ market' = "jp"
          /\ positions' = {}
          /\ activity_log' = <<>>

C24_InitIdempotent == [][C24_Step]_vars

C24_Witness ==
    /\ initialized.again
    /\ ~initialized.force
    /\ market = "us"
    /\ cash_row # InitialCash
    /\ positions # {}
    /\ activity_log # <<>>

\* What one call with the single batch <<t>> makes of ledger s.
SplitOne(s, t) ==
    LET cash == s.cash + (IF t.kind = "buy" THEN 0 - Cost(t) ELSE Cost(t))
        rows == Rows(s.positions, t.symbol)
        held == SharesHeld(s.positions, t.symbol)
        row == CHOOSE r \in rows : TRUE
        rest == Others(s.positions, t.symbol)
        fail(error) == [store |-> s, result |-> error]
        ok(tbl) == [store |-> [cash |-> cash, positions |-> tbl, log |-> Append(s.log, LogRow(t))],
                    result |-> "ok"]
    IN  IF t.kind \notin {"buy", "sell"} THEN fail("UnsupportedTransactionKind")
        ELSE IF cash < 0 THEN fail("InsufficientCash")
        ELSE IF t.kind = "buy"
             THEN ok(rest \cup {[symbol |-> t.symbol, shares |-> held + t.shares,
                                 avg_price |-> IF rows = {} THEN Rat(t.price, 1)
                                               ELSE Rat(held * row.avg_price.n
                                                           + Cost(t) * row.avg_price.d,
                                                        row.avg_price.d * (held + t.shares))]})
        ELSE IF rows = {} THEN fail("NoSuchPosition")
        ELSE IF held - t.shares < -Tolerance THEN fail("OversizedSell")
        ELSE IF held - t.shares <= Tolerance THEN ok(rest)
        ELSE ok(rest \cup {[row EXCEPT !.shares = held - t.shares]})

\* The batch applied as separate single-transaction calls, from transaction
\* k on, until one of them fails: the ledger reached, the index of the call
\* that failed (0 if none) and its error.
RECURSIVE Split(_, _, _)
Split(s, batch, k) ==
    IF k > Len(batch) THEN [store |-> s, failed |-> 0, result |-> "ok"]
    ELSE LET one == SplitOne(s, batch[k])
         IN  IF one.result # "ok" THEN [store |-> s, failed |-> k, result |-> one.result]
             ELSE Split(one.store, batch, k + 1)

\* C25: a batch that succeeds leaves the cash, the positions and the number
\* of log rows that its transactions leave when applied one call each in the
\* same order, all of which then succeed; a batch that fails at transaction k
\* fails where the separate calls fail, after k - 1 of them succeeded.
C25_SplitEquivalence ==
    Ended =>
        LET split == Split(pre, transactions, 1)
        IN  /\ result = "ok" =>
                  /\ split.failed = 0
                  /\ split.store.cash = cash_row
                  /\ split.store.positions = positions
                  /\ Len(split.store.log) = Len(activity_log)
            /\ result # "ok" =>
                  /\ split.failed = i
                  /\ split.result = result

\* a batch whose second transaction needs what the first one did
C25_Witness ==
    /\ Succeeded
    /\ Len(transactions) = 2
    /\ transactions[1].kind = "buy"
    /\ transactions[2].kind = "sell"
    /\ transactions[1].symbol = transactions[2].symbol
    /\ Rows(pre.positions, transactions[1].symbol) = {}
    /\ transactions[1].price > 0

C25_WitnessFailed == Failed /\ i = 2 /\ result = "InsufficientCash"

\* the transactions before transaction k, applied one call each
Passed(k) == Split(pre, SubSeq(transactions, 1, k - 1), 1)

\* C26: the loop reaches transaction k only after every transaction before
\* it has passed its checks; the call fails at the first transaction, in
\* submission order, that fails a check, with the error of the first check
\* that transaction fails (kind, then working cash, then position); once it
\* has failed, no further transaction of the batch is examined.
C26_Reached ==
    /\ (pc = "loop" \/ Failed) =>
          /\ Passed(i).failed = 0
          /\ pc = "loop" => /\ Passed(i).store.cash = cash_balance
                            /\ Passed(i).store.positions = tx_positions
    /\ Failed =>
          LET t == transactions[i]
              cash == Passed(i).store.cash + cash_impact(t)
          IN  /\ SplitOne(Passed(i).store, t).result = result
              /\ result = "UnsupportedTransactionKind" <=> t.kind \notin {"buy", "sell"}
              /\ result = "InsufficientCash" <=> (t.kind \in {"buy", "sell"} /\ cash < 0)
              /\ result \in {"NoSuchPosition", "OversizedSell"} =>
                    (t.kind = "sell" /\ cash >= 0)

C26_Step == Failed => (pc' = "idle" /\ UNCHANGED <<cash_row, positions, activity_log>>)

C26_FirstInvalidStops == []C26_Reached /\ [][C26_Step]_vars

\* a batch of two invalid transactions: the first one's error is reported
C26_Witness ==
    /\ Failed
    /\ i = 1
    /\ Len(transactions) = 2
    /\ result = "NoSuchPosition"
    /\ transactions[2].kind = "hold"

C26_WitnessSecond ==
    /\ Failed
    /\ i = 2
    /\ result = "UnsupportedTransactionKind"

\* the rows committed by another call while the ended call was running
OtherRows == SubSeq(activity_log, Len(pre.log) + 1, Len(activity_log) - Len(transactions))

RECURSIVE RowsImpact(_)
RowsImpact(rows) ==
    IF rows = <<>> THEN 0
    ELSE cash_impact(Head(rows)) + RowsImpact(Tail(rows))

\* C27 as claimed: when a call has committed, the cash balance is the balance
\* from before the call plus the cash impacts of its own batch and of the
\* batch another call committed meanwhile.
C27_NoLostUpdate ==
    Succeeded =>
        cash_row = pre.cash + NetCash(Len(transactions)) + RowsImpact(OtherRows)

\* C27: the call that commits last writes the balance it read at its start
\* plus the impacts of its own batch, so the cash impact of a batch another
\* call committed in between is lost, while that batch's log rows stay,
\* followed by the rows of the call that commits last; a call during which no
\* other call commits loses nothing.
C27_LastWriterWins ==
    Succeeded =>
        /\ cash_row = pre.cash + NetCash(Len(transactions))
        /\ Len(activity_log) >= Len(pre.log) + Len(transactions)
        /\ SubSeq(activity_log, 1, Len(pre.log)) = pre.log
        /\ SubSeq(activity_log, Len(activity_log) - Len(transactions) + 1, Len(activity_log))
              = BatchRows

C27_Witness ==
    /\ Succeeded
    /\ transactions # <<>>
    /\ OtherRows # <<>>
    /\ RowsImpact(OtherRows) # 0
    /\ NetCash(Len(transactions)) # 0

\* C28: every batch DeciderAgent.run returns is accepted by apply_transactions
\* on the ledger the decider's snapshot was read from: the call that
\* PortfolioUpdaterAgent.run makes never ends in an exception.
C28_BatchAccepted == pc = "done" => result = "ok"

\* the rounded buy costs more than the cash the decider clamped it to
C28_RoundedUp ==
    /\ pc = "done"
    /\ result = "InsufficientCash"
    /\ Len(transactions) = 1
    /\ transactions[1].shares * transactions[1].price > pre.cash

\* the cost of the buys among the first k decisions of the run
RECURSIVE BuyCost(_, _)
BuyCost(decisions, k) ==
    IF k = 0 THEN 0
    ELSE BuyCost(decisions, k - 1)
            + (IF decisions[k].action = "buy" THEN decisions[k].quantity * decisions[k].price ELSE 0)

OnlyBuysBefore(k) == \A j \in 1..(k - 1) : prototype.decisions[j].action = "buy"

C30_Affordable ==
    prototype.pc = "apply" =>
        /\ BuyCost(prototype.decisions, Len(prototype.decisions)) <= prototype.capital
        /\ \A k \in 1..Len(prototype.decisions) :
              prototype.decisions[k].action = "buy" =>
                  /\ prototype.decisions[k].price = BuyPrice
                  /\ prototype.decisions[k].quantity =
                        quantity(allocation(prototype.capital, Cardinality({j \in 1..Len(prototype.decisions) : prototype.decisions[j].action = "buy"})))

C30_CashAfterBuys ==
    /\ prototype.cash >= 0
    /\ (prototype.pc = "apply" /\ OnlyBuysBefore(prototype.i)) =>
          prototype.cash = prototype.capital - BuyCost(prototype.decisions, prototype.i - 1)

C30_Step ==
    (InApply /\ decision.action = "buy" /\ prototype'.i = prototype.i + 1) =>
        /\ prototype.cash - decision.quantity * decision.price >= 0
        /\ prototype'.cash = prototype.cash - decision.quantity * decision.price

\* C30: in the in-memory prototype the buy decisions of Dicider.run, each of
\* quantity floor((cash / n) / 100) at price 100, never cost more in total
\* than the repository's cash; applying them leaves cash >= 0, the clamp
\* max(0, ...) of _apply_buy discards no cost, and cash after the buys is
\* cash before minus their total cost.
C30_BuysWithinCash == [](C30_Affordable /\ C30_CashAfterBuys) /\ [][C30_Step]_vars

\* two buys of one share each out of 250 have been applied, 50 is left
C30_Witness ==
    /\ prototype.pc = "apply"
    /\ prototype.capital = 250
    /\ prototype.i = 3
    /\ OnlyBuysBefore(3)
    /\ BuyCost(prototype.decisions, 2) = 200
    /\ prototype.cash = 50

====
